---- MODULE Spec2Model ----
(***************************************************************************)
(* The setting DAO (src/lib/api/settings/lib/dao.js): five CRUD operations *)
(* over a Couchbase bucket, called concurrently by several callers.  Each  *)
(* operation is an async function: a synchronous prefix that builds the    *)
(* backend request, the request in flight (await), and the continuation    *)
(* that builds the result or rethrows the translated error.  The backend   *)
(* executes one request atomically.                                        *)
(***************************************************************************)
EXTENDS Integers, FiniteSets, Sequences, TLC

\* ------------------------------------------------------------------ bounds
\* Number of versions (cas values) the backend issues in one run.
MaxCas == 3

\* --------------------------------------------------------------- constants
DOC_TYPE == "setting"

Clients == {"c1", "c2"}
\* Identifiers callers pass explicitly, and the identifiers uuid.v1() yields,
\* in the order it yields them.
GivenIds == {"a"}
UuidPool == <<"u1">>
UuidOf(n) == UuidPool[n]
Ids == GivenIds \cup {UuidOf(n) : n \in 1..Len(UuidPool)}
Langs == {"en", "fr"}

\* The options of a request that carries no cas: the write is unconditional.
NoCas == 0

\* ---------------------------------------------------------------- documents
\* A document is a function from its keys to their values.
NoDoc == [k \in {} |-> 0]
Put(d, k, v) == [x \in (DOMAIN d) \cup {k} |-> IF x = k THEN v ELSE d[x]]
Delete(d, K) == [x \in (DOMAIN d) \ K |-> d[x]]
\* Object.assign(target, source): the source's keys win.
ObjectAssign(target, source) ==
    [x \in (DOMAIN target) \cup (DOMAIN source) |->
        IF x \in DOMAIN source THEN source[x] ELSE target[x]]
\* The schema-specific fields of a document: everything but id, cas and type.
Fields(d) == Delete(d, {"id", "cas", "type"})

\* ------------------------------------------------------------------ backend
\* db.removeMetadataFromDoc: the document without its id and cas.
removeMetadataFromDoc(doc) == Delete(doc, {"id", "cas"})

\* db.handleError: the backend's error code as a kind of the taxonomy.
handleError(code) ==
    CASE code = "keyNotFound" -> "NotFound"
      [] code = "keyExists"   -> "AlreadyExists"
      [] code = "casMismatch" -> "VersionConflict"
      [] OTHER                -> "BackendError"

Reply(code, st, data) == [code |-> code, store |-> st, data |-> data]
Stored(cas, value) == [cas |-> cas, value |-> value]
Without(st, id) == [x \in (DOMAIN st) \ {id} |-> st[x]]
With(st, id, cas, value) ==
    [x \in (DOMAIN st) \cup {id} |-> IF x = id THEN Stored(cas, value) ELSE st[x]]

\* db.get(id) -> {cas, value}
dbGet(st, id) ==
    IF id \in DOMAIN st
    THEN Reply("ok", st, [cas |-> st[id].cas, value |-> st[id].value])
    ELSE Reply("keyNotFound", st, NoDoc)

\* db.query: every document of the bucket whose type is the given one.
dbQuery(st, type) ==
    Reply("ok", st,
          {[id |-> id, cas |-> st[id].cas, fields |-> st[id].value] :
              id \in {x \in DOMAIN st :
                         "type" \in DOMAIN st[x].value /\ st[x].value["type"] = type}})

\* db.insert(id, doc, durability) -> {cas}
dbInsert(st, id, doc, newcas) ==
    IF id \in DOMAIN st
    THEN Reply("keyExists", st, NoDoc)
    ELSE Reply("ok", With(st, id, newcas, doc), [cas |-> newcas])

\* db.replace(id, doc, {cas}) -> {cas}
dbReplace(st, id, doc, cas, newcas) ==
    IF id \notin DOMAIN st THEN Reply("keyNotFound", st, NoDoc)
    ELSE IF cas # NoCas /\ st[id].cas # cas THEN Reply("casMismatch", st, NoDoc)
    ELSE Reply("ok", With(st, id, newcas, doc), [cas |-> newcas])

\* db.remove(id)
dbRemove(st, id) ==
    IF id \in DOMAIN st
    THEN Reply("ok", Without(st, id), NoDoc)
    ELSE Reply("keyNotFound", st, NoDoc)

\* The backend executing one request atomically.
dbExec(st, rq, newcas) ==
    CASE rq.call = "get"     -> dbGet(st, rq.id)
      [] rq.call = "query"   -> dbQuery(st, rq.type)
      [] rq.call = "insert"  -> dbInsert(st, rq.id, rq.doc, newcas)
      [] rq.call = "replace" -> dbReplace(st, rq.id, rq.doc, rq.cas, newcas)
      [] rq.call = "remove"  -> dbRemove(st, rq.id)

\* Whether the request, executed now, issues a new version.
Writes(st, rq) ==
    /\ rq.call \in {"insert", "replace"}
    /\ dbExec(st, rq, 0).code = "ok"

\* ---------------------------------------------------------------------- DAO
Request(call, id, doc, cas, type) ==
    [call |-> call, id |-> id, doc |-> doc, cas |-> cas, type |-> type]
NoRequest == Request("none", "", NoDoc, NoCas, "")

\* findByID(id): db.get(id)
findByID(id) == Request("get", id, NoDoc, NoCas, "")
\* ... and what it returns for the backend's data.
\* (Variant: the stored value is not merged into the result.)
findByIDValueNoFields(id, data) == [id |-> id, cas |-> data.cas]
findByIDValue(id, data) == ObjectAssign([id |-> id, cas |-> data.cas], data.value)

\* find(): the N1QL query WHERE type = DOC_TYPE
find == Request("query", "", NoDoc, NoCas, DOC_TYPE)

\* (Variant: the payload is written with the type the caller supplied.)
insertNoType(doc, id) == Request("insert", id, doc, NoCas, "")
\* insert(doc, id): doc.type = DOC_TYPE; db.insert(id, doc, durabilityOptions)
insert(doc, id) == Request("insert", id, Put(doc, "type", DOC_TYPE), NoCas, "")
\* ... data.id = id; return data
insertValue(id, data) == Put(data, "id", id)

\* (Variant: db.replace is called without the cas option.)
updateNoCas(doc) ==
    Request("replace", doc["id"],
            Put(removeMetadataFromDoc(doc), "type", DOC_TYPE), NoCas, "")
\* (Variant: the metadata is not stripped from the payload.)
updateKeepsMetadata(doc) ==
    Request("replace", doc["id"], Put(doc, "type", DOC_TYPE), doc["cas"], "")
\* update(doc): {id, cas} = doc; strip the metadata; doc.type = DOC_TYPE;
\* db.replace(id, doc, {cas: cas})
update(doc) ==
    Request("replace", doc["id"],
            Put(removeMetadataFromDoc(doc), "type", DOC_TYPE), doc["cas"], "")

\* (Variant: the document is fetched instead of removed.)
removeAsGet(id) == Request("get", id, NoDoc, NoCas, "")
\* remove(id): db.remove(id)
remove(id) == Request("remove", id, NoDoc, NoCas, "")

\* ---------------------------------------------------------------- the state
VARIABLES
    store,        \* the bucket: id -> [cas, value]
    casCounter,   \* the last version the backend issued
    uuidCount,    \* how many identifiers uuid.v1() has generated
    pc,           \* per caller: "idle", or the DAO operation it awaits
    req,          \* per caller: the backend request in flight
    arg,          \* per caller: the document it passed to the operation
    res           \* per caller: the outcome of the operation it completed last,
                  \* until it calls the next one

vars == <<store, casCounter, uuidCount, pc, req, arg, res>>

Outcome(op, id, doc, cas, status, value, rows) ==
    [op |-> op, id |-> id, doc |-> doc, cas |-> cas,
     status |-> status, value |-> value, rows |-> rows]
NoOutcome == Outcome("none", "", NoDoc, NoCas, "none", NoDoc, {})

Init ==
    /\ store = [x \in {} |-> Stored(0, NoDoc)]
    /\ casCounter = 0
    /\ uuidCount = 0
    /\ pc = [c \in Clients |-> "idle"]
    /\ req = [c \in Clients |-> NoRequest]
    /\ arg = [c \in Clients |-> NoDoc]
    /\ res = [c \in Clients |-> NoOutcome]

\* The payloads a caller builds from scratch; one carries a foreign type.
NewDocs == {[language |-> "en"], [language |-> "fr", type |-> "other"]}

\* What a caller may do to a document it read before passing it to update.
Edits(d) == {d, Put(Put(d, "language", "fr"), "type", "other")}

\* The document a caller holds: the one its findByID has just returned.
Held(c) ==
    IF res[c].op = "findByID" /\ res[c].status = "ok" THEN {res[c].value} ELSE {}

\* The identifiers a caller can name: the given ones and those generated so far.
KnownIds == GivenIds \cup {UuidOf(n) : n \in 1..uuidCount}

\* The synchronous prefix of an operation: the request leaves.
Call(c, op, rq, doc) ==
    /\ pc[c] = "idle"
    /\ pc' = [pc EXCEPT ![c] = op]
    /\ req' = [req EXCEPT ![c] = rq]
    /\ arg' = [arg EXCEPT ![c] = doc]
    /\ res' = [res EXCEPT ![c] = NoOutcome]
    /\ UNCHANGED <<store, casCounter>>

\* The backend's answer to the request of caller c.
Answer(c) == dbExec(store, req[c], casCounter + 1)

\* The backend executes the request of c and c's continuation runs.
Settle(c, op, status, value, rows, st) ==
    /\ pc[c] = op
    /\ Writes(store, req[c]) => casCounter < MaxCas
    /\ store' = st
    /\ casCounter' = IF Writes(store, req[c]) THEN casCounter + 1 ELSE casCounter
    /\ pc' = [pc EXCEPT ![c] = "idle"]
    /\ req' = [req EXCEPT ![c] = NoRequest]
    /\ arg' = [arg EXCEPT ![c] = NoDoc]
    /\ res' = [res EXCEPT ![c] =
                  Outcome(op, req[c].id, IF status = "ok" THEN arg[c] ELSE NoDoc,
                          req[c].cas, status, value, rows)]
    /\ UNCHANGED uuidCount

findByIDCall(c) ==
    \E id \in KnownIds :
        /\ Call(c, "findByID", findByID(id), NoDoc)
        /\ UNCHANGED uuidCount

findByIDReturn(c) ==
    /\ pc[c] = "findByID"
    /\ LET r == Answer(c) IN
         IF r.code = "ok"
         THEN Settle(c, "findByID", "ok", findByIDValue(req[c].id, r.data), {}, r.store)
         ELSE Settle(c, "findByID", handleError(r.code), NoDoc, {}, r.store)

findCall(c) ==
    /\ Call(c, "find", find, NoDoc)
    /\ UNCHANGED uuidCount

findReturn(c) ==
    /\ pc[c] = "find"
    /\ LET r == Answer(c) IN
         Settle(c, "find", "ok", NoDoc, r.data, r.store)

\* insert(doc, id) with the id given by the caller
insertCall(c) ==
    \E doc \in NewDocs \cup Held(c), id \in KnownIds :
        /\ Call(c, "insert", insert(doc, id), doc)
        /\ UNCHANGED uuidCount

\* insert(doc): the id defaults to uuid.v1()
insertCallUuid(c) ==
    \E doc \in NewDocs \cup Held(c) :
        /\ uuidCount < Len(UuidPool)
        /\ Call(c, "insert", insert(doc, UuidOf(uuidCount + 1)), doc)
        /\ uuidCount' = uuidCount + 1

\* (Variant: the continuation throws after the backend has written.)
insertReturnThrowsAfterWrite(c) ==
    /\ pc[c] = "insert"
    /\ LET r == Answer(c) IN
         Settle(c, "insert",
                IF r.code = "ok" THEN handleError("failure") ELSE handleError(r.code),
                NoDoc, {}, r.store)

\* (Variant: the catch block logs the error and does not rethrow it.)
insertReturnSwallows(c) ==
    /\ pc[c] = "insert"
    /\ LET r == Answer(c) IN
         IF r.code = "ok"
         THEN Settle(c, "insert", "ok", insertValue(req[c].id, r.data), {}, r.store)
         ELSE Settle(c, "insert", "ok", NoDoc, {}, r.store)

insertReturn(c) ==
    /\ pc[c] = "insert"
    /\ LET r == Answer(c) IN
         IF r.code = "ok"
         THEN Settle(c, "insert", "ok", insertValue(req[c].id, r.data), {}, r.store)
         ELSE Settle(c, "insert", handleError(r.code), NoDoc, {}, r.store)

updateCall(c) ==
    \E d \in Held(c) : \E doc \in Edits(d) :
        /\ Call(c, "update", update(doc), doc)
        /\ UNCHANGED uuidCount

updateReturn(c) ==
    /\ pc[c] = "update"
    /\ LET r == Answer(c) IN
         IF r.code = "ok"
         THEN Settle(c, "update", "ok", r.data, {}, r.store)
         ELSE Settle(c, "update", handleError(r.code), NoDoc, {}, r.store)

removeCall(c) ==
    \E id \in KnownIds :
        /\ Call(c, "remove", remove(id), NoDoc)
        /\ UNCHANGED uuidCount

removeReturn(c) ==
    /\ pc[c] = "remove"
    /\ LET r == Answer(c) IN
         IF r.code = "ok"
         THEN Settle(c, "remove", "ok", NoDoc, {}, r.store)
         ELSE Settle(c, "remove", handleError(r.code), NoDoc, {}, r.store)

\* The request of c fails in the backend for another reason (network, timeout,
\* quota): nothing is written and the operation rethrows BackendError.
backendFailure(c) ==
    /\ pc[c] # "idle"
    /\ pc' = [pc EXCEPT ![c] = "idle"]
    /\ req' = [req EXCEPT ![c] = NoRequest]
    /\ arg' = [arg EXCEPT ![c] = NoDoc]
    /\ res' = [res EXCEPT ![c] =
                  Outcome(pc[c], req[c].id, NoDoc, req[c].cas,
                          handleError("failure"), NoDoc, {})]
    /\ UNCHANGED <<store, casCounter, uuidCount>>

Next ==
    \E c \in Clients :
        \/ findByIDCall(c)
        \/ findByIDReturn(c)
        \/ findCall(c)
        \/ findReturn(c)
        \/ insertCall(c)
        \/ insertCallUuid(c)
        \/ insertReturn(c)
        \/ updateCall(c)
        \/ updateReturn(c)
        \/ removeCall(c)
        \/ removeReturn(c)
        \/ backendFailure(c)

Spec == Init /\ [][Next]_vars

\* ------------------------------------------------------------------- claims
Ok(o, op) == res[o].op = op /\ res[o].status = "ok"
Has(d, k, v) == k \in DOMAIN d /\ d[k] = v
\* The version the successful write of caller o issued is still the stored one:
\* nothing has written the document since.
StillCurrent(o) ==
    /\ res[o].id \in DOMAIN store
    /\ store[res[o].id].cas = res[o].value["cas"]

\* C1: of two update calls that carry the same version of the same document,
\* the one the backend executes while that version is still the stored one
\* succeeds, the other one then fails with VersionConflict, and in no
\* interleaving do both succeed.
C1_ExactlyOneUpdateWins ==
    [][\A c \in Clients :
         updateReturn(c) =>
            LET id == arg[c]["id"]
                cas == arg[c]["cas"]
                Winners == {o \in Clients \ {c} :
                               /\ Ok(o, "update")
                               /\ res[o].doc["id"] = id
                               /\ res[o].doc["cas"] = cas}
            IN  /\ (id \in DOMAIN store /\ store[id].cas = cas)
                       => (res'[c].status = "ok" /\ Winners = {})
                /\ \A o \in Winners :
                       /\ res'[c].status # "ok"
                       /\ StillCurrent(o) => res'[c].status = "VersionConflict"]_vars

C1_Witness ==
    \E c, o \in Clients :
        /\ Ok(o, "update")
        /\ res[c].op = "update" /\ res[c].status = "VersionConflict"
        /\ res[c].id = res[o].doc["id"]
        /\ res[c].cas = res[o].doc["cas"]

\* C2: an update whose document carries a version other than the one stored
\* for its id fails with VersionConflict and writes nothing.
C2_StaleUpdateFails ==
    [][\A c \in Clients :
         (/\ updateReturn(c)
          /\ arg[c]["id"] \in DOMAIN store
          /\ store[arg[c]["id"]].cas # arg[c]["cas"])
            => (res'[c].status = "VersionConflict" /\ store' = store)]_vars

C2_Witness ==
    \E c, o \in Clients :
        /\ Ok(o, "update") /\ StillCurrent(o)
        /\ res[c].op = "update" /\ res[c].status = "VersionConflict"
        /\ res[c].id = res[o].id
        /\ res[c].cas # NoCas
        /\ res[c].cas < res[o].value["cas"]

\* C3: after a successful update(d), a findByID(d.id) that no other write to
\* that id precedes returns d's fields under a version other than d's.
C3_UpdateRoundTrip ==
    [][\A c \in Clients, o \in Clients :
         (/\ findByIDReturn(c)
          /\ Ok(o, "update")
          /\ req[c].id = res[o].doc["id"]
          /\ StillCurrent(o))
            => /\ res'[c].status = "ok"
               /\ Fields(res'[c].value) = Fields(res[o].doc)
               /\ res'[c].value["cas"] # res[o].doc["cas"]]_vars

\* The updated document is the one findByID returned, unchanged.
C3_Witness ==
    \E c, o \in Clients :
        /\ Ok(o, "update") /\ StillCurrent(o)
        /\ Has(res[o].doc, "type", DOC_TYPE)
        /\ Ok(c, "findByID")
        /\ res[c].id = res[o].doc["id"]
        /\ res[c].value["cas"] = res[o].value["cas"]

\* C4: after insert(fields) without an id, a findByID(result.id) that no other
\* write to that id precedes returns the inserted fields and type 'setting'.
C4_InsertRoundTrip ==
    [][\A c \in Clients, o \in Clients :
         (/\ findByIDReturn(c)
          /\ Ok(o, "insert")
          /\ res[o].id \notin GivenIds
          /\ req[c].id = res[o].value["id"]
          /\ StillCurrent(o))
            => /\ res'[c].status = "ok"
               /\ Fields(res'[c].value) = Fields(res[o].doc)
               /\ Has(res'[c].value, "type", DOC_TYPE)]_vars

C4_Witness ==
    \E c, o \in Clients :
        /\ Ok(o, "insert") /\ StillCurrent(o)
        /\ res[o].id \notin GivenIds
        /\ Has(res[o].doc, "type", "other")
        /\ Ok(c, "findByID")
        /\ res[c].id = res[o].value["id"]
        /\ Fields(res[c].value) = Fields(res[o].doc)

\* C5: an operation that fails leaves every stored document, its existence,
\* fields, type and version, as it was.
C5_FailureWritesNothing ==
    [][\A c \in Clients :
         (pc[c] # "idle" /\ pc'[c] = "idle" /\ res'[c].status # "ok")
            => store' = store]_vars

C5_Witness ==
    \E c, o \in Clients :
        /\ res[c].op = "insert" /\ res[c].status = "AlreadyExists"
        /\ res[o].op = "update" /\ res[o].status = "BackendError"
        /\ res[c].id \in DOMAIN store

\* C6: no stored document's field set contains the version (cas) token.
C6_VersionNeverPersisted ==
    \A id \in DOMAIN store : "cas" \notin DOMAIN store[id].value

\* C7: every stored document has the repository's type, whatever type the
\* payload of the insert or update that wrote it carried.
C7_TypeAlwaysSetting ==
    \A id \in DOMAIN store : Has(store[id].value, "type", DOC_TYPE)

C7_Witness ==
    \E c, o \in Clients :
        /\ Ok(c, "insert") /\ Has(res[c].doc, "type", "other")
        /\ Ok(o, "update") /\ Has(res[o].doc, "type", "other") /\ StillCurrent(o)

\* C8: an insert under an id that holds a document fails with AlreadyExists
\* and leaves the stored document as it was.
C8_SecondInsertFails ==
    [][\A c \in Clients :
         (insertReturn(c) /\ req[c].id \in DOMAIN store)
            => (res'[c].status = "AlreadyExists" /\ store' = store)]_vars

C8_Witness ==
    \E c, o \in Clients :
        /\ Ok(o, "insert") /\ StillCurrent(o)
        /\ res[c].op = "insert" /\ res[c].status = "AlreadyExists"
        /\ res[c].id = res[o].id

\* C9: remove of an existing id succeeds whatever its version and deletes the
\* document; only an insert brings an id back; findByID of an absent id fails
\* with NotFound.
C9_RemoveThenNotFound ==
    [][/\ \A c \in Clients :
            /\ (removeReturn(c) /\ req[c].id \in DOMAIN store)
                  => (res'[c].status = "ok" /\ req[c].id \notin DOMAIN store')
            /\ (findByIDReturn(c) /\ req[c].id \notin DOMAIN store)
                  => res'[c].status = "NotFound"
       /\ \A id \in Ids :
            (id \notin DOMAIN store /\ id \in DOMAIN store')
                  => \E c \in Clients : insertReturn(c) /\ req[c].id = id]_vars

C9_Witness ==
    \E c, o \in Clients :
        /\ Ok(o, "remove")
        /\ res[c].op = "findByID" /\ res[c].status = "NotFound"
        /\ res[c].id = res[o].id
        /\ res[c].id \notin DOMAIN store
        /\ casCounter > 0

\* C10: a successful findByID(id) returns a value whose id is the requested id
\* and whose cas is the version the backend holds for the document.
C10_FindByIDAttachesMetadata ==
    [][\A c \in Clients :
         (findByIDReturn(c) /\ res'[c].status = "ok")
            => /\ res'[c].value["id"] = req[c].id
               /\ res'[c].value["cas"] = store[req[c].id].cas]_vars

====
